---- MODULE Spec2Model ----
(***************************************************************************)
(* RSTNPy: download, decompression and parsing of RSTN 1-second solar      *)
(* radio flux files.  Three classes of the repository are modelled:        *)
(*   "rstnpy"     rstnpy.RSTN with its rstnpy.RSTNDownloader / RSTNFile    *)
(*   "downloader" getrstn.RSTNDownloader used on its own                   *)
(*   "getrstn"    getrstn.GetRSTN                                          *)
(* Strings are sequences of one-character strings; file contents are       *)
(* sequences of bytes written the same way.                                *)
(***************************************************************************)
EXTENDS Integers, Sequences, FiniteSets, TLC

VARIABLES impl, req, server, fs, filename, dataframe, pc, loc, gets, ret,
          ncalls, pre, pipeline

vars == <<impl, req, server, fs, filename, dataframe, pc, loc, gets, ret,
          ncalls, pre, pipeline>>

\* Bound on the number of method calls made on the object in one behaviour.
MaxCalls == 3

(***************************************************************************)
(* Strings                                                                 *)
(***************************************************************************)
None == <<"<None>">>

Digits == <<"0", "1", "2", "3", "4", "5", "6", "7", "8", "9">>

UpperLetters ==
    <<"A", "B", "C", "D", "E", "F", "G", "H", "I", "J", "K", "L", "M",
      "N", "O", "P", "Q", "R", "S", "T", "U", "V", "W", "X", "Y", "Z">>

LowerLetters ==
    <<"a", "b", "c", "d", "e", "f", "g", "h", "i", "j", "k", "l", "m",
      "n", "o", "p", "q", "r", "s", "t", "u", "v", "w", "x", "y", "z">>

Whitespace == {" ", "\n", "\t", "\r"}

\* str.lower() on one character
LowerChar(c) ==
    IF \E i \in 1..26 : UpperLetters[i] = c
    THEN LowerLetters[CHOOSE i \in 1..26 : UpperLetters[i] = c]
    ELSE c

\* str.lower()
RECURSIVE Lower(_)
Lower(s) == IF s = <<>> THEN <<>> ELSE <<LowerChar(s[1])>> \o Lower(Tail(s))

\* str.replace(a, b) for one-character a and b
RECURSIVE Replace(_, _, _)
Replace(s, a, b) ==
    IF s = <<>> THEN <<>>
    ELSE <<IF s[1] = a THEN b ELSE s[1]>> \o Replace(Tail(s), a, b)

\* s[k:] with a 0-based k >= 0
From(s, k) == SubSeq(s, k + 1, Len(s))

\* s[a:b] with 0-based a <= b, clipped to the string as Python's slices are
Slice(s, a, b) ==
    IF a >= Len(s) \/ a >= b THEN <<>>
    ELSE SubSeq(s, a + 1, IF b > Len(s) THEN Len(s) ELSE b)

\* str(n) for a natural number n
RECURSIVE StrNat(_)
StrNat(n) ==
    IF n < 10 THEN <<Digits[n + 1]>>
    ELSE StrNat(n \div 10) \o <<Digits[(n % 10) + 1]>>

\* str(x) where x is a string or None: str(None) is the text "None"
StrOf(x) == IF x = None THEN <<"N", "o", "n", "e">> ELSE x

IsDigit(c) == \E i \in 1..10 : Digits[i] = c

DigitVal(c) == (CHOOSE i \in 1..10 : Digits[i] = c) - 1

RECURSIVE DigitsVal(_)
DigitsVal(s) ==
    IF s = <<>> THEN 0
    ELSE 10 * DigitsVal(SubSeq(s, 1, Len(s) - 1)) + DigitVal(s[Len(s)])

RECURSIVE LStrip(_)
LStrip(s) ==
    IF s # <<>> /\ s[1] \in Whitespace THEN LStrip(Tail(s)) ELSE s

RECURSIVE RStrip(_)
RStrip(s) ==
    IF s # <<>> /\ s[Len(s)] \in Whitespace
    THEN RStrip(SubSeq(s, 1, Len(s) - 1)) ELSE s

\* The digits of an integer literal: one or more, or a ValueError.
ParseDigits(negative, d) ==
    IF d # <<>> /\ \A i \in 1..Len(d) : IsDigit(d[i])
    THEN [exc |-> "none",
          val |-> IF negative THEN 0 - DigitsVal(d) ELSE DigitsVal(d)]
    ELSE [exc |-> "ValueError", val |-> 0]

\* An integer literal without surrounding whitespace: one sign is allowed.
ParseSigned(t) ==
    IF t # <<>> /\ t[1] \in {"+", "-"}
    THEN ParseDigits(t[1] = "-", Tail(t))
    ELSE ParseDigits(FALSE, t)

\* int(s): surrounding whitespace is ignored, one sign is allowed, the rest
\* must be one or more digits; anything else is a ValueError.
ParseInt(s) == ParseSigned(RStrip(LStrip(s)))

\* the places (1-based) where sub occurs in s
Occurrences(s, sub) ==
    {i \in 1..(Len(s) - Len(sub) + 1) : SubSeq(s, i, i + Len(sub) - 1) = sub}

Least(at) == IF at = {} THEN 0 ELSE CHOOSE i \in at : \A j \in at : i <= j

\* the index of the first occurrence of sub in s (1-based), 0 when absent
FindFirst(s, sub) == Least(Occurrences(s, sub))

HeadBefore(s, i) == IF i = 0 THEN s ELSE SubSeq(s, 1, i - 1)

\* s.split(sub)[0]
SplitHead(s, sub) == HeadBefore(s, FindFirst(s, sub))

(***************************************************************************)
(* Construction: the fields each class keeps of the request                *)
(***************************************************************************)
Ok(v) == [exc |-> "none", val |-> v]

Raise(e) == [exc |-> e, val |-> <<>>]

\* RSTN.__format_day / GetRSTN.__format_day
ZeroPad(formatted) ==
    IF Len(formatted) = 1 THEN <<"0">> \o formatted ELSE formatted

FormatDay(day) == ZeroPad(StrNat(day))

\* RSTN.__format_month / GetRSTN.__format_month
FormatMonth(month) == ZeroPad(StrNat(month))

\* rstnpy.rstnfile.RSTNFile(year, month, day, station)
RSTNFile_init(year, month, day, station) ==
    [year |-> year, month |-> month, day |-> day, station |-> station]

\* rstnpy.RSTNDownloader(year, month, day, path, station)
RSTNDownloader_init(year, month, day, station) ==
    [year |-> year, month |-> month, day |-> day, station |-> station,
     file |-> RSTNFile_init(year, month, day, station)]

\* rstnpy.RSTN(day, month, year, path, station): the downloader is built
\* with the positional arguments (self.day, self.month, self.year, ...).
RSTN_fields(d, m, y, station) ==
    [day |-> d, month |-> m, year |-> y, station |-> station,
     downloader |-> RSTNDownloader_init(d, m, y, station)]

RSTN_init(day, month, year, station) ==
    RSTN_fields(FormatDay(day), FormatMonth(month), StrNat(year), station)

\* getrstn.RSTNDownloader(day, month, year, path, station); the caller hands
\* it the day and the month as two-digit strings.
GDownloader_init(day, month, year, station) ==
    [day |-> day, month |-> month, year |-> StrNat(year), station |-> station]

\* getrstn.GetRSTN(day, month, year, path, station)
GetRSTN_init(day, month, year, station) ==
    [day |-> FormatDay(day), month |-> FormatMonth(month),
     year |-> StrNat(year), station |-> station]

\* The object whose methods name files: RSTNDownloader.__file for rstnpy,
\* the downloader or the GetRSTN object itself for getrstn.
Namer(i, r) ==
    CASE i = "rstnpy" ->
            RSTN_init(r.day, r.month, r.year, r.station).downloader.file
      [] i = "downloader" ->
            GDownloader_init(FormatDay(r.day), FormatMonth(r.month),
                             r.year, r.station)
      [] OTHER -> GetRSTN_init(r.day, r.month, r.year, r.station)

\* The object whose year and month build the URL's directories.
UrlOwner(i, r) ==
    IF i = "rstnpy"
    THEN RSTN_init(r.day, r.month, r.year, r.station).downloader
    ELSE Namer(i, r)

\* The year read_file uses for the column interval (RSTN.year, GetRSTN.year).
OwnYear(i, r) ==
    IF i = "rstnpy" THEN RSTN_init(r.day, r.month, r.year, r.station).year
    ELSE GetRSTN_init(r.day, r.month, r.year, r.station).year

(***************************************************************************)
(* File names and URLs                                                     *)
(***************************************************************************)
MonthsUpper ==
    << <<"J","A","N">>, <<"F","E","B">>, <<"M","A","R">>, <<"A","P","R">>,
       <<"M","A","Y">>, <<"J","U","N">>, <<"J","U","L">>, <<"A","U","G">>,
       <<"S","E","P">>, <<"O","C","T">>, <<"N","O","V">>, <<"D","E","C">> >>

MonthsLower ==
    << <<"j","a","n">>, <<"f","e","b">>, <<"m","a","r">>, <<"a","p","r">>,
       <<"m","a","y">>, <<"j","u","n">>, <<"j","u","l">>, <<"a","u","g">>,
       <<"s","e","p">>, <<"o","c","t">>, <<"n","o","v">>, <<"d","e","c">> >>

\* list[index] with Python's negative indices
ListIndex(list, index) ==
    IF index >= 0 /\ index < Len(list) THEN Ok(list[index + 1])
    ELSE IF index < 0 /\ index >= 0 - Len(list)
         THEN Ok(list[Len(list) + index + 1])
         ELSE Raise("IndexError")

\* months[index], index = int(self.month) - 1
MonthAt(months, n) ==
    IF n.exc # "none" THEN Raise(n.exc) ELSE ListIndex(months, n.val - 1)

\* __change_month_upper / __change_month_lower
ChangeMonth(f, upper) ==
    MonthAt(IF upper THEN MonthsUpper ELSE MonthsLower, ParseInt(f.month))

\* a + b of two strings, either of which may have raised instead
Concat(a, b) ==
    IF a.exc # "none" THEN a
    ELSE IF b.exc # "none" THEN b
    ELSE Ok(a.val \o b.val)

\* set_filename(upper): self.day + month + self.year[2:]
SetFilename(f, upper) ==
    Concat(Ok(f.day), Concat(ChangeMonth(f, upper), Ok(From(f.year, 2))))

StationExtensions ==
    << [station |-> <<"s","a","g","a","m","o","r","e"," ","h","i","l","l">>,
        lower |-> <<"k","7","o">>, upper |-> <<"K","7","O">>],
       [station |-> <<"s","a","n"," ","v","i","t","o">>,
        lower |-> <<"l","i","s">>, upper |-> <<"L","I","S">>],
       [station |-> <<"p","a","l","e","h","u","a">>,
        lower |-> <<"p","h","f">>, upper |-> <<"P","H","F">>],
       [station |-> <<"l","e","a","r","m","o","n","t","h">>,
        lower |-> <<"a","p","l">>, upper |-> <<"A","P","L">>] >>

GzSuffix == <<".", "g", "z">>

\* A lookup with dict.get and a default: an unknown key raises nothing.
ExtensionOf_default(key, upper) ==
    IF \A k \in 1..Len(StationExtensions) : StationExtensions[k].station # key
    THEN Ok(IF upper THEN <<"D","A","T">> ELSE <<"d","a","t">>)
    ELSE Ok(LET e == StationExtensions[
                        CHOOSE k \in 1..Len(StationExtensions) :
                            StationExtensions[k].station = key]
            IN  IF upper THEN e.upper ELSE e.lower)

\* self.__station_extensions[key][case], a KeyError for an unknown key
ExtensionOf(key, upper) ==
    IF \A k \in 1..Len(StationExtensions) : StationExtensions[k].station # key
    THEN Raise("KeyError")
    ELSE Ok(LET e == StationExtensions[
                        CHOOSE k \in 1..Len(StationExtensions) :
                            StationExtensions[k].station = key]
            IN  IF upper THEN e.upper ELSE e.lower)

\* set_file_extension_upper / set_file_extension_lower (file_gzip)
SetFileExtension(f, upper, file_gzip) ==
    Concat(Ok(<<".">>),
           Concat(ExtensionOf(Lower(f.station), upper),
                  Ok(IF file_gzip THEN GzSuffix ELSE <<>>)))

\* filename + extension, as __download and file_exists build it
FullName(f, upper, file_gzip) ==
    Concat(SetFilename(f, upper), SetFileExtension(f, upper, file_gzip))

\* station.lower().replace(' ', '-')
FormatStationForUrl(station) == Replace(Lower(station), " ", "-")

BaseUrl ==
    <<"https://www.ngdc.noaa.gov/stp/space-weather/solar-data/solar-features/solar-radio/rstn-1-second/">>

\* getrstn's __set_url(upper) (RSTNDownloader and GetRSTN alike)
GSetUrl(o, upper) ==
    Concat(Ok(BaseUrl \o FormatStationForUrl(o.station) \o <<"/">>
              \o o.year \o <<"/">> \o o.month \o <<"/">>),
           FullName(o, upper, TRUE))

\* The parameters RSTNFile.format_station_for_url declares besides self.
FormatStationForUrlParams == 0

\* A call of RSTNFile.format_station_for_url with nargs arguments.
CallFormatStationForUrl(file, nargs) ==
    IF nargs # FormatStationForUrlParams THEN Raise("TypeError")
    ELSE Ok(FormatStationForUrl(file.station))

\* rstnpy's RSTNDownloader.__set_url(upper): its first statement calls
\* self.__file.format_station_for_url(self.__station), one argument.
RSetUrl(d, upper) ==
    Concat(Concat(Ok(BaseUrl), CallFormatStationForUrl(d.file, 1)),
           Concat(Ok(<<"/">> \o d.year \o <<"/">> \o d.month \o <<"/">>),
                  FullName(d.file, upper, TRUE)))

SetUrl(i, r, upper) ==
    IF i = "rstnpy" THEN RSetUrl(UrlOwner(i, r), upper)
    ELSE GSetUrl(UrlOwner(i, r), upper)


(***************************************************************************)
(* The archive, gzip framing and the two directories                       *)
(***************************************************************************)
GzipMagic == <<"\\x1f", "\\x8b">>

GzipTrailer == <<"crc+isize">>

\* gzip.compress(c): a header that starts with the two magic bytes, the
\* payload, and the trailer that ends the member.
Gzip(c) == GzipMagic \o c \o GzipTrailer

\* gzip.open(path, 'rb').read(): an empty file reads as no data, a file
\* that does not start with the magic bytes is a BadGzipFile, a member
\* without its trailer an EOFError.
Gunzip(b) ==
    IF b = <<>> THEN Ok(<<>>)
    ELSE IF Len(b) < 2 \/ SubSeq(b, 1, 2) # GzipMagic THEN Raise("BadGzipFile")
    ELSE IF Len(b) < 3 \/ SubSeq(b, Len(b), Len(b)) # GzipTrailer
         THEN Raise("EOFError")
    ELSE Ok(SubSeq(b, 3, Len(b) - 1))

\* The response the archive gives to GET url: 404 for what it does not hold.
Get(url) ==
    IF url \in DOMAIN server THEN server[url]
    ELSE [status |-> 404, body |-> <<>>]

\* A __download that takes every 2xx status as a success.
DownloadStatusOk_2xx(status) == status >= 200 /\ status < 300

\* rstnpy/getrstn RSTNDownloader.__download: r.status_code != 200 raises
DownloadStatusOk(status) == status = 200

\* wget.download (urllib): every 2xx response is a success
WgetStatusOk(status) == status >= 200 /\ status < 300

StatusOk(i, status) ==
    IF i = "getrstn" THEN WgetStatusOk(status) ELSE DownloadStatusOk(status)

\* open(name, 'wb').write(data) in directory dir
WriteFile(f, dir, name, data) ==
    [f EXCEPT ![dir] = (name :> data) @@ f[dir]]

\* os.remove(dir/name)
RemoveFile(f, dir, name) ==
    [f EXCEPT ![dir] = [n \in (DOMAIN f[dir]) \ {name} |-> f[dir][n]]]

\* A rename that copies: the file stays in the working directory.
RenameIntoPath_copy(f, name) == WriteFile(f, "path", name, f["cwd"][name])

\* Path(name).rename(path/name), os.rename(name, path/name): the file leaves
\* the working directory and replaces what the target directory held.
RenameIntoPath(f, name) ==
    RemoveFile(WriteFile(f, "path", name, f["cwd"][name]), "cwd", name)

Exists(f, dir, name) == name \in DOMAIN f[dir]

NoFiles == [n \in {} |-> <<>>]

NoLoc == [name |-> <<>>, data |-> <<>>, final |-> <<>>]

Pending(op) == [op |-> op, exc |-> "pending", val |-> <<>>]

Returned(op, v) == [op |-> op, exc |-> "none", val |-> v]

Raised(op, e) == [op |-> op, exc |-> e, val |-> <<>>]

PyTrue == <<"True">>

PyFalse == <<"False">>

(***************************************************************************)
(* download_file                                                           *)
(***************************************************************************)
CanCall == pc = "idle" /\ ncalls < MaxCalls

\* History kept for the properties.  pre: the files, the filename attribute
\* and the outcome of the call before, as they were when the current call
\* was entered.  pipeline: how far the calls made so far have followed
\* download_file, decompress_file, create_dataframe: "0".."3" stages done,
\* "failed" once one of them raised, "off" once another call came between.
Snapshot == [fs |-> fs, filename |-> filename, ret |-> ret]

PipelineOps == <<"download_file", "decompress_file", "create_dataframe">>

StageNames == <<"0", "1", "2", "3">>

NextStage(s, r) ==
    IF \E k \in 1..3 : s = StageNames[k]
    THEN LET k == CHOOSE j \in 1..3 : s = StageNames[j]
         IN  IF r.op # PipelineOps[k] THEN "off"
             ELSE IF r.exc # "none" THEN "failed"
             ELSE StageNames[k + 1]
    ELSE s

Log == pipeline' = IF pc' = "idle" THEN NextStage(pipeline, ret') ELSE pipeline

\* download_file() is entered
CallDownloadFile ==
    /\ CanCall
    /\ pc' = "dl_upper"
    /\ ncalls' = ncalls + 1
    /\ gets' = <<>>
    /\ loc' = NoLoc
    /\ ret' = Pending("download_file")
    /\ UNCHANGED <<impl, req, server, fs, filename, dataframe>>
    /\ pre' = Snapshot
    /\ Log

\* The exception of the inner except clause: rstnpy raises
\* FileNotFoundOnServerError, the getrstn package FileNotFoundOnServer.
NotOnServer(i) ==
    IF i = "rstnpy" THEN "FileNotFoundOnServerError"
    ELSE "FileNotFoundOnServer"

\* A download_file whose except clause tries the lower-case name once more
\* instead of giving up.
DlResponse_retry(upper, full, r) ==
    IF StatusOk(impl, r.status)
    THEN /\ loc' = [NoLoc EXCEPT !.name = full.val, !.data = r.body]
         /\ pc' = "dl_write"
         /\ UNCHANGED ret
    ELSE /\ pc' = "dl_lower"
         /\ UNCHANGED <<loc, ret>>

\* One variant attempt up to the status check: __download(upper) through
\* its raise HTTPError, or GetRSTN's __set_url and wget.download.  The
\* except HTTPError clauses of download_file decide what a failure leads to.
DlResponse(upper, full, r) ==
    IF StatusOk(impl, r.status)
    THEN /\ loc' = [NoLoc EXCEPT !.name = full.val, !.data = r.body]
         /\ pc' = "dl_write"
         /\ UNCHANGED ret
    ELSE IF upper
    THEN /\ pc' = "dl_lower"
         /\ UNCHANGED <<loc, ret>>
    ELSE /\ ret' = Raised("download_file", NotOnServer(impl))
         /\ pc' = "idle"
         /\ UNCHANGED loc

DlAttempt(upper, url) ==
    IF url.exc # "none"
    THEN /\ ret' = Raised("download_file", url.exc)
         /\ pc' = "idle"
         /\ UNCHANGED <<gets, loc>>
    ELSE /\ gets' = Append(gets, url.val)
         /\ DlResponse(upper, FullName(Namer(impl, req), upper, TRUE),
                       Get(url.val))

DlGet ==
    /\ pc \in {"dl_upper", "dl_lower"}
    /\ DlAttempt(pc = "dl_upper", SetUrl(impl, req, pc = "dl_upper"))
    /\ UNCHANGED <<impl, req, server, fs, filename, dataframe, ncalls>>
    /\ UNCHANGED pre
    /\ Log

\* with open(filename, 'wb') as fp: fp.write(r.content), in the working
\* directory (wget.download stores its file there too)
DlWrite ==
    /\ pc = "dl_write"
    /\ fs' = WriteFile(fs, "cwd", loc.name, loc.data)
    /\ pc' = "dl_rename"
    /\ UNCHANGED <<impl, req, server, filename, dataframe, loc, gets, ret,
                   ncalls>>
    /\ UNCHANGED pre
    /\ Log

\* The rename into the target directory and the return.  GetRSTN stores the
\* name in self._filename and returns True; the downloaders return the name.
DlRename ==
    /\ pc = "dl_rename"
    /\ fs' = RenameIntoPath(fs, loc.name)
    /\ filename' = IF impl = "getrstn" THEN loc.name ELSE filename
    /\ ret' = Returned("download_file",
                       IF impl = "getrstn" THEN PyTrue ELSE loc.name)
    /\ pc' = "idle"
    /\ UNCHANGED <<impl, req, server, dataframe, loc, gets, ncalls>>
    /\ UNCHANGED pre
    /\ Log

(***************************************************************************)
(* file_exists                                                             *)
(***************************************************************************)
\* A file_exists that looks for the upper-case name only.
FileExistsHits_upper(i, r, f) ==
    {n \in {FullName(Namer(i, r), TRUE, FALSE).val} : Exists(f, "path", n)}

\* The names of the target directory file_exists accepts.
FileExistsHits(i, r, f) ==
    {n \in {FullName(Namer(i, r), TRUE, FALSE).val,
            FullName(Namer(i, r), FALSE, FALSE).val} : Exists(f, "path", n)}

\* A file_exists that stores the name it found in every class.
FileExistsResult_store(filename_upper, filename_lower, hits) ==
    IF filename_upper.exc # "none" \/ filename_lower.exc # "none" \/ hits = {}
    THEN /\ ret' = Returned("file_exists", PyFalse)
         /\ UNCHANGED filename
    ELSE /\ ret' = Returned("file_exists", PyTrue)
         /\ \E n \in hits : filename' = n

\* file_exists() once both names are built: GetRSTN also stores the name it
\* found in self._filename.
FileExistsResult(filename_upper, filename_lower, hits) ==
    IF filename_upper.exc # "none"
    THEN /\ ret' = Raised("file_exists", filename_upper.exc)
         /\ UNCHANGED filename
    ELSE IF filename_lower.exc # "none"
    THEN /\ ret' = Raised("file_exists", filename_lower.exc)
         /\ UNCHANGED filename
    ELSE IF hits = {}
    THEN /\ ret' = Returned("file_exists", PyFalse)
         /\ UNCHANGED filename
    ELSE /\ ret' = Returned("file_exists", PyTrue)
         /\ IF impl = "getrstn"
            THEN \E n \in hits : filename' = n
            ELSE UNCHANGED filename

CallFileExists ==
    /\ CanCall
    /\ ncalls' = ncalls + 1
    /\ gets' = <<>>
    /\ FileExistsResult(FullName(Namer(impl, req), TRUE, FALSE),
                        FullName(Namer(impl, req), FALSE, FALSE),
                        FileExistsHits(impl, req, fs))
    /\ UNCHANGED <<impl, req, server, fs, dataframe, pc, loc>>
    /\ pre' = Snapshot
    /\ Log

(***************************************************************************)
(* decompress_file                                                         *)
(***************************************************************************)
\* decompress_file() is entered: the name is taken, the file is opened with
\* gzip.open and read whole.
DcRead(filename_gzip, file_content) ==
    IF file_content.exc # "none"
    THEN /\ ret' = Raised("decompress_file", file_content.exc)
         /\ UNCHANGED <<pc, loc>>
    ELSE /\ loc' = [name |-> filename_gzip,
                    data |-> file_content.val,
                    final |-> SplitHead(filename_gzip, GzSuffix)]
         /\ pc' = "dc_open"
         /\ ret' = Pending("decompress_file")

DcEnter(filename_gzip) ==
    IF impl = "getrstn" /\ filename = None
    THEN /\ ret' = Raised("decompress_file", "TypeError")
         /\ UNCHANGED <<pc, loc>>
    ELSE IF ~Exists(fs, "path", filename_gzip)
    THEN /\ ret' = Raised("decompress_file", "FileNotFoundError")
         /\ UNCHANGED <<pc, loc>>
    ELSE DcRead(filename_gzip, Gunzip(fs["path"][filename_gzip]))

CallDecompressFile ==
    /\ CanCall
    /\ impl # "downloader"
    /\ ncalls' = ncalls + 1
    /\ gets' = <<>>
    /\ DcEnter(IF impl = "rstnpy" THEN StrOf(filename) ELSE filename)
    /\ UNCHANGED <<impl, req, server, fs, filename, dataframe>>
    /\ pre' = Snapshot
    /\ Log

\* open(path/final_name, "wb"): the file is created, or emptied if it exists
DcOpen ==
    /\ pc = "dc_open"
    /\ fs' = WriteFile(fs, "path", loc.final, <<>>)
    /\ pc' = "dc_write"
    /\ UNCHANGED <<impl, req, server, filename, dataframe, loc, gets, ret,
                   ncalls>>
    /\ UNCHANGED pre
    /\ Log

\* final_file.write(file_content) and the close of both files
DcWrite ==
    /\ pc = "dc_write"
    /\ fs' = WriteFile(fs, "path", loc.final, loc.data)
    /\ pc' = "dc_remove"
    /\ UNCHANGED <<impl, req, server, filename, dataframe, loc, gets, ret,
                   ncalls>>
    /\ UNCHANGED pre
    /\ Log

\* os.remove(path/filename_gzip); self.__filename = final_name; return
DcRemove ==
    /\ pc = "dc_remove"
    /\ fs' = RemoveFile(fs, "path", loc.name)
    /\ filename' = loc.final
    /\ ret' = Returned("decompress_file", loc.final)
    /\ pc' = "idle"
    /\ UNCHANGED <<impl, req, server, dataframe, loc, gets, ncalls>>
    /\ UNCHANGED pre
    /\ Log


(***************************************************************************)
(* read_file, create_dataframe, plot                                       *)
(***************************************************************************)
\* A column interval whose widest columns start a year late.
SetColumnInterval_late(year) ==
    IF ParseInt(year).val >= 2016 THEN 8
    ELSE IF ParseInt(year).val >= 2008 THEN 7
    ELSE 6

\* __set_column_interval
SetColumnInterval(year) ==
    IF ParseInt(year).val >= 2015 THEN 8
    ELSE IF ParseInt(year).val >= 2008 THEN 7
    ELSE 6

NaN == [nan |-> TRUE, v |-> 0]

\* __cast_to_int64(number): int64(number), NaN on a ValueError
Int64OrNaN(n) == IF n.exc = "none" THEN [nan |-> FALSE, v |-> n.val] ELSE NaN

CastToInt64(number) == Int64OrNaN(ParseInt(number))

\* fp.readlines(): each line keeps the newline that ends it
RECURSIVE ReadLines(_)
CutLine(content, i) ==
    IF content = <<>> THEN <<>>
    ELSE IF i = 0 THEN <<content>>
    ELSE <<SubSeq(content, 1, i)>> \o ReadLines(From(content, i))

ReadLines(content) == CutLine(content, FindFirst(content, <<"\n">>))

IsLeap(y) == (y % 4 = 0 /\ y % 100 # 0) \/ y % 400 = 0

DaysInMonth(y, m) ==
    IF m = 2 THEN (IF IsLeap(y) THEN 29 ELSE 28)
    ELSE IF m \in {4, 6, 9, 11} THEN 30 ELSE 31

\* datetime(year, month, day, hour, minute, second) raises no ValueError
DatetimeOk(y, m, d, h, mi, sec) ==
    /\ y >= 1 /\ y <= 9999
    /\ m >= 1 /\ m <= 12
    /\ d >= 1 /\ d <= DaysInMonth(y, m)
    /\ h >= 0 /\ h <= 23
    /\ mi >= 0 /\ mi <= 59
    /\ sec >= 0 /\ sec <= 59

\* The frequency columns of the table (self.frequencies_columns).
FrequenciesColumns(i) ==
    IF i = "rstnpy"
    THEN <<"245", "410", "610", "1415", "2695", "4995", "8800", "15400">>
    ELSE <<"f245", "f410", "f610", "f1415", "f2695", "f4995", "f8800",
           "f15400">>

\* The flux keys rstn_data is created with, besides "time".
RstnDataKeys(i) ==
    IF i = "rstnpy"
    THEN <<"245", "410", "610", "f1415", "2695", "4995", "8800", "15400">>
    ELSE <<"f245", "f410", "f610", "f1415", "f2695", "f4995", "f8800",
           "f15400">>

\* The key the k-th field of a line is appended to.
AppendKeys(i) ==
    IF i = "rstnpy"
    THEN <<"245", "410", "610", "1415", "2695", "4995", "8800", "15400">>
    ELSE <<"f245", "f410", "f610", "f1415", "f2695", "f4995", "f8800",
           "f15400">>

\* The k-th flux field of a line, k = 1..8: the last one runs to the end.
Field(line, interval, k) ==
    IF k < 8 THEN Slice(line, 18 + interval * (k - 1), 18 + interval * k)
    ELSE From(line, IF 18 + interval * 7 > Len(line) THEN Len(line)
                    ELSE 18 + interval * 7)

RECURSIVE AppendFields(_, _, _, _, _)
AppendFields(i, data, line, interval, k) ==
    IF k > 8 THEN Ok(data)
    ELSE IF AppendKeys(i)[k] \notin DOMAIN data THEN Raise("KeyError")
    ELSE AppendFields(i,
            [data EXCEPT ![AppendKeys(i)[k]] =
                Append(@, CastToInt64(Field(line, interval, k)))],
            line, interval, k + 1)

\* The rest of the loop body once the six header integers are parsed.
ReadDated(i, data, line, interval, p) ==
    IF \E k \in 1..6 : p[k].exc # "none" THEN Raise("ValueError")
    ELSE IF ~DatetimeOk(p[1].val, p[2].val, p[3].val, p[4].val, p[5].val,
                        p[6].val)
    THEN Raise("ValueError")
    ELSE AppendFields(i,
            [data EXCEPT !["time"] =
                Append(@, <<p[1].val, p[2].val, p[3].val, p[4].val,
                            p[5].val, p[6].val>>)],
            line, interval, 1)

\* The body of read_file's loop for one line: year, month, day, hour,
\* minute and second are cut from the header.
ReadLine(i, data, line, interval) ==
    ReadDated(i, data, line, interval,
              <<ParseInt(Slice(line, 4, 8)), ParseInt(Slice(line, 8, 10)),
                ParseInt(Slice(line, 10, 12)), ParseInt(Slice(line, 12, 14)),
                ParseInt(Slice(line, 14, 16)), ParseInt(Slice(line, 16, 18))>>)

RECURSIVE ReadLoop(_, _, _, _)
ReadNext(i, one, lines, interval) ==
    IF one.exc # "none" THEN one
    ELSE ReadLoop(i, one.val, Tail(lines), interval)

ReadLoop(i, data, lines, interval) ==
    IF lines = <<>> THEN Ok(data)
    ELSE ReadNext(i, ReadLine(i, data, lines[1], interval), lines, interval)

\* The file is opened in text mode: bytes that are no text cannot be decoded.
IsText(content) ==
    \A k \in 1..Len(content) :
        content[k] \notin {GzipMagic[1], GzipMagic[2], GzipTrailer[1]}

\* read_file()
ReadFile(i, r, f, name) ==
    IF name = None THEN Raise("FilenameNotSetError")
    ELSE IF ~Exists(f, "path", name) THEN Raise("FileNotFoundError")
    ELSE IF ~IsText(f["path"][name]) THEN Raise("UnicodeDecodeError")
    ELSE ReadLoop(i,
                  [k \in {"time"} \cup {RstnDataKeys(i)[j] : j \in 1..8}
                      |-> <<>>],
                  ReadLines(f["path"][name]),
                  SetColumnInterval(OwnYear(i, r)))

\* DataFrame(data, columns=self.frequencies_columns, index=data["time"]): a
\* column that is no key of data is filled with NaN.
DataFrame(i, data, utc) ==
    [index |-> data["time"],
     utc |-> utc,
     columns |-> FrequenciesColumns(i),
     values |-> [c \in {FrequenciesColumns(i)[k] : k \in 1..8} |->
                    IF c \in DOMAIN data THEN data[c]
                    ELSE [k \in 1..Len(data["time"]) |-> NaN]]]

NoFrame == <<>>

ReadFileResult(data) ==
    IF data.exc # "none" THEN Raised("read_file", data.exc)
    ELSE Returned("read_file", <<data.val>>)

CallReadFile ==
    /\ CanCall
    /\ impl # "downloader"
    /\ ncalls' = ncalls + 1
    /\ gets' = <<>>
    /\ ret' = ReadFileResult(ReadFile(impl, req, fs, filename))
    /\ UNCHANGED <<impl, req, server, fs, filename, dataframe, pc, loc>>
    /\ pre' = Snapshot
    /\ Log

\* create_dataframe(): a FilenameNotSetError becomes a FileNotFoundError,
\* whose message GetRSTN builds by "..." + self._filename, None there.
\* self.dataframe is assigned before index.tz_localize("UTC") is called; an
\* index built from an empty list is no DatetimeIndex, and whether pandas
\* then raises or returns an empty index is left open.
CreateFrom(data) ==
    IF data.exc = "FilenameNotSetError"
    THEN /\ ret' = Raised("create_dataframe",
                          IF impl = "getrstn" THEN "TypeError"
                          ELSE "FileNotFoundError")
         /\ UNCHANGED dataframe
    ELSE IF data.exc # "none"
    THEN /\ ret' = Raised("create_dataframe", data.exc)
         /\ UNCHANGED dataframe
    ELSE IF data.val["time"] = <<>>
    THEN \/ /\ dataframe' = <<DataFrame(impl, data.val, FALSE)>>
            /\ ret' = Raised("create_dataframe", "AttributeError")
         \/ /\ dataframe' = <<DataFrame(impl, data.val, TRUE)>>
            /\ ret' = Returned("create_dataframe", <<"dataframe">>)
    ELSE /\ dataframe' = <<DataFrame(impl, data.val, TRUE)>>
         /\ ret' = Returned("create_dataframe", <<"dataframe">>)

CallCreateDataframe ==
    /\ CanCall
    /\ impl # "downloader"
    /\ ncalls' = ncalls + 1
    /\ gets' = <<>>
    /\ CreateFrom(ReadFile(impl, req, fs, filename))
    /\ UNCHANGED <<impl, req, server, fs, filename, pc, loc>>
    /\ pre' = Snapshot
    /\ Log

\* plot()
CallPlot ==
    /\ CanCall
    /\ impl # "downloader"
    /\ ncalls' = ncalls + 1
    /\ gets' = <<>>
    /\ ret' = IF dataframe = NoFrame
              THEN Raised("plot", "DataFrameNotCreatedError")
              ELSE Returned("plot", <<"axis">>)
    /\ UNCHANGED <<impl, req, server, fs, filename, dataframe, pc, loc>>
    /\ pre' = Snapshot
    /\ Log

(***************************************************************************)
(* Requests, archive contents and the initial state                        *)
(***************************************************************************)
Impls == {"rstnpy", "downloader", "getrstn"}

SagamoreHill == <<"S","a","g","a","m","o","r","e"," ","H","i","l","l">>

SanVito == <<"s","a","n"," ","v","i","t","o">>

\* 4 September 2002 at Sagamore Hill, and 30 February 2021 at San Vito,
\* which is no calendar date; the same day at Learmonth spelled in capitals,
\* and at a station the extension table does not know.
Req2002 == [day |-> 4, month |-> 9, year |-> 2002, station |-> SagamoreHill]

Requests ==
    { Req2002,
      [day |-> 30, month |-> 2, year |-> 2021, station |-> SanVito],
      [Req2002 EXCEPT
          !.station = <<"L","E","A","R","M","O","N","T","H">>],
      [Req2002 EXCEPT !.station = <<"N","o","b","e","y","a","m","a">>] }

\* datetime(year, month, day) raises no ValueError
IsCalendarDate(y, m, d) == DatetimeOk(y, m, d, 0, 0, 0)

RECURSIVE Pad(_, _)
Pad(s, w) == IF Len(s) >= w THEN s ELSE Pad(<<" ">> \o s, w)

\* One line of a file: the 18-character header and eight right-justified
\* fields of width w.
FluxLine(header, v, w) ==
    header \o Pad(StrNat(v[1]), w) \o Pad(StrNat(v[2]), w)
           \o Pad(StrNat(v[3]), w) \o Pad(StrNat(v[4]), w)
           \o Pad(StrNat(v[5]), w) \o Pad(StrNat(v[6]), w)
           \o Pad(StrNat(v[7]), w) \o Pad(StrNat(v[8]), w) \o <<"\n">>

Header1 ==
    <<"K","7","O","L","2","0","0","2","0","9","0","4",
      "0","0","0","0","0","0">>

Header2 ==
    <<"K","7","O","L","2","0","0","2","0","9","0","4",
      "0","0","0","0","0","1">>

Values1 == <<108, 105, 54, 76, 97, 131, 256, 503>>

Values2 == <<109, 104, 55, 77, 98, 130, 255, 504>>

\* A file of two well-formed lines of interval 6.
TwoLines == FluxLine(Header1, Values1, 6) \o FluxLine(Header2, Values2, 6)

\* What a file may hold before it is compressed.
Payloads == {TwoLines, <<>>}

\* The bodies the archive answers with: gzip files, and one plain text.
ServedBodies == {Gzip(p) : p \in Payloads} \cup {TwoLines}

StatusCodes == {200, 204, 404}

\* The archive's layout: <base>/<station-slug>/<year>/<month>/<name><ext>.gz
ArchiveUrl(r, upper) ==
    GSetUrl(GetRSTN_init(r.day, r.month, r.year, r.station), upper).val

\* The archive keeps files of the four stations only.
ArchiveServer(r, su, sl, b) ==
    IF ExtensionOf(Lower(r.station), TRUE).exc # "none" THEN NoFiles
    ELSE (ArchiveUrl(r, TRUE) :> [status |-> su, body |-> b])
         @@ (ArchiveUrl(r, FALSE) :> [status |-> sl, body |-> b])

\* What the target directory may hold before the first call: nothing, the
\* request's compressed file, its decompressed file under the upper-case or
\* the lower-case name, a compressed file under the decompressed name, or a
\* compressed file named "None".  A station without an extension has no
\* file of its own.
InitialPathFiles(i, r) ==
    IF FullName(Namer(i, r), TRUE, TRUE).exc # "none"
    THEN { NoFiles, StrOf(None) :> Gzip(TwoLines) }
    ELSE { NoFiles,
           FullName(Namer(i, r), TRUE, TRUE).val :> Gzip(TwoLines),
           FullName(Namer(i, r), TRUE, FALSE).val :> TwoLines,
           FullName(Namer(i, r), FALSE, FALSE).val :> TwoLines,
           FullName(Namer(i, r), TRUE, FALSE).val :> Gzip(TwoLines),
           StrOf(None) :> Gzip(TwoLines) }

Init ==
    /\ impl \in Impls
    /\ req \in Requests
    /\ server \in {ArchiveServer(req, su, sl, b) :
                      su \in StatusCodes, sl \in StatusCodes,
                      b \in ServedBodies}
    /\ fs \in {[cwd |-> NoFiles, path |-> p] : p \in InitialPathFiles(impl, req)}
    /\ filename = None
    /\ dataframe = NoFrame
    /\ pc = "idle"
    /\ loc = NoLoc
    /\ gets = <<>>
    /\ ret = Pending("none")
    /\ ncalls = 0
    /\ pre = Snapshot
    /\ pipeline = "0"

Next ==
    \/ CallDownloadFile
    \/ DlGet
    \/ DlWrite
    \/ DlRename
    \/ CallFileExists
    \/ CallDecompressFile
    \/ DcOpen
    \/ DcWrite
    \/ DcRemove
    \/ CallReadFile
    \/ CallCreateDataframe
    \/ CallPlot

Spec == Init /\ [][Next]_vars



(***************************************************************************)
(* read_file and create_dataframe over files of many shapes                *)
(*                                                                         *)
(* ParseSpec starts where a filename has been resolved and the target      *)
(* directory holds a text file of that name, for request years on both     *)
(* sides of each change of the column width, and calls read_file,          *)
(* create_dataframe and plot.                                              *)
(***************************************************************************)
ParseYears == {2007, 2008, 2014, 2015}

\* The width the archive's files of a year are written with.
ArchiveInterval(y) == IF y < 2008 THEN 6 ELSE IF y < 2015 THEN 7 ELSE 8

Time1 == <<2002, 9, 4, 0, 0, 0>>

Time2 == <<2002, 9, 4, 0, 0, 1>>

\* The archive's mark for a missing measurement.
MissingMark == <<"/", "/">>

\* A line of eight fields: its header, the text of each field, and the
\* timestamp and the cells it stands for.
ShapedLine(header, time, v, bad) ==
    [shaped |-> TRUE,
     header |-> header,
     fields |-> [k \in 1..8 |-> IF k = bad THEN MissingMark
                               ELSE StrNat(v[k])],
     time |-> time,
     cells |-> [k \in 1..8 |-> IF k = bad THEN NaN
                              ELSE [nan |-> FALSE, v |-> v[k]]],
     bad |-> bad,
     raw |-> <<>>]

\* A line that has no such shape.
RawLine(text) ==
    [shaped |-> FALSE, header |-> <<>>, fields |-> <<>>, time |-> <<>>,
     cells |-> <<>>, bad |-> 0, raw |-> text]

GoodLines ==
    {ShapedLine(Header1, Time1, Values1, 0),
     ShapedLine(Header2, Time2, Values2, 0)}

\* Lines whose first or last field is the missing mark.
BadFieldLines == {ShapedLine(Header1, Time1, Values1, k) : k \in {1, 8}}

\* An empty line, a line shorter than the header, a header with letters.
MalformedLines ==
    { RawLine(<<"\n">>),
      RawLine(<<"K", "7", "O", "L", "2", "0", "\n">>),
      RawLine(<<"K","7","O","L","y","e","a","r","0","9","0","4",
                "0","0","0","0","0","0","\n">>) }

\* A well-formed line with one more character after its eighth field.
TrailingLines == {[ShapedLine(Header1, Time1, Values1, 0) EXCEPT !.raw = <<"7">>]}

LineKinds ==
    GoodLines \cup BadFieldLines \cup MalformedLines \cup TrailingLines

MaxLines == 2

\* The files: up to MaxLines lines, each of any kind.
ParseFiles ==
    UNION {[1..n -> LineKinds] : n \in 0..MaxLines}

\* The text of a line written with fields of width w; l.raw is what a
\* shaped line carries between its eighth field and the end of the line.
LineText(l, w) ==
    IF l.shaped
    THEN l.header \o Pad(l.fields[1], w) \o Pad(l.fields[2], w)
                  \o Pad(l.fields[3], w) \o Pad(l.fields[4], w)
                  \o Pad(l.fields[5], w) \o Pad(l.fields[6], w)
                  \o Pad(l.fields[7], w) \o Pad(l.fields[8], w)
                  \o l.raw \o <<"\n">>
    ELSE l.raw

RECURSIVE FileText(_, _)
FileText(d, w) ==
    IF Len(d) = 0 THEN <<>>
    ELSE LineText(d[1], w) \o FileText(Tail(d), w)

\* The name the file of the request is stored under once decompressed.
ParseName(i, r) == FullName(Namer(i, r), TRUE, FALSE).val

ParseInit ==
    /\ impl \in {"rstnpy", "getrstn"}
    /\ req \in {[Req2002 EXCEPT !.year = y] : y \in ParseYears}
    /\ server = ArchiveServer(req, 404, 404, <<>>)
    /\ fs \in {[cwd |-> NoFiles,
                path |-> ParseName(impl, req)
                            :> FileText(d, ArchiveInterval(req.year))] :
                  d \in ParseFiles}
    /\ filename = ParseName(impl, req)
    /\ dataframe = NoFrame
    /\ pc = "idle"
    /\ loc = NoLoc
    /\ gets = <<>>
    /\ ret = Pending("none")
    /\ ncalls = 0
    /\ pre = Snapshot
    /\ pipeline = "off"

ParseNext ==
    \/ CallReadFile
    \/ CallCreateDataframe
    \/ CallPlot

ParseSpec == ParseInit /\ [][ParseNext]_vars


(***************************************************************************)
(* RSTNFile.is_date_valid                                                  *)
(*                                                                         *)
(* DateSpec builds one RSTNFile from strings (req holds the constructor's  *)
(* arguments as given) and calls is_date_valid on it.                      *)
(***************************************************************************)
\* The largest value of a C int, what datetime() takes its arguments as.
CIntMaxDigits == <<"2","1","4","7","4","8","3","6","4","7">>

RECURSIVE StripZeros(_)
StripZeros(d) ==
    IF Len(d) > 1 /\ d[1] = "0" THEN StripZeros(Tail(d)) ELSE d

\* a > b for two runs of digits of the same length
RECURSIVE DigitsGreater(_, _)
DigitsGreater(a, b) ==
    IF a = <<>> THEN FALSE
    ELSE IF a[1] # b[1] THEN DigitVal(a[1]) > DigitVal(b[1])
    ELSE DigitsGreater(Tail(a), Tail(b))

\* The digits d, without leading zeros, exceed the largest C int.
TooBig(d) ==
    \/ Len(d) > Len(CIntMaxDigits)
    \/ Len(d) = Len(CIntMaxDigits) /\ DigitsGreater(d, CIntMaxDigits)

\* The digits of an integer literal, its sign dropped.
Unsigned(t) == IF t # <<>> /\ t[1] \in {"+", "-"} THEN Tail(t) ELSE t

\* int(s) raises no ValueError.
IsIntLiteral(s) ==
    /\ Unsigned(RStrip(LStrip(s))) # <<>>
    /\ \A k \in 1..Len(Unsigned(RStrip(LStrip(s)))) :
           IsDigit(Unsigned(RStrip(LStrip(s)))[k])

\* int(s) is a value datetime() cannot take as a C int.
ExceedsCInt(s) == TooBig(StripZeros(Unsigned(RStrip(LStrip(s)))))

\* datetime(year, month, day) of three values that fit: a date that does
\* not exist is a ValueError.
DatetimeNew(y, m, d) ==
    IF ~IsCalendarDate(y, m, d) THEN Raise("ValueError")
    ELSE Ok(<<y, m, d>>)

\* The except ValueError clause of is_date_valid.
DateValidOf(made) ==
    IF made.exc = "none" THEN Ok(PyTrue)
    ELSE IF made.exc = "ValueError" THEN Ok(PyFalse)
    ELSE Raise(made.exc)

\* RSTNFile.is_date_valid(): the three int() calls, where a ValueError
\* gives False, then datetime(), whose arguments must fit a C int: one
\* that does not is an OverflowError, which no clause catches.
IsDateValid(f) ==
    IF ~(IsIntLiteral(f.year) /\ IsIntLiteral(f.month) /\ IsIntLiteral(f.day))
    THEN Ok(PyFalse)
    ELSE IF ExceedsCInt(f.year) \/ ExceedsCInt(f.month) \/ ExceedsCInt(f.day)
    THEN Raise("OverflowError")
    ELSE DateValidOf(DatetimeNew(ParseInt(f.year).val, ParseInt(f.month).val,
                                 ParseInt(f.day).val))

IsDateValidResult(r) == [op |-> "is_date_valid", exc |-> r.exc, val |-> r.val]

CallIsDateValid ==
    /\ CanCall
    /\ impl = "rstnfile"
    /\ ncalls' = ncalls + 1
    /\ gets' = <<>>
    /\ ret' = IsDateValidResult(
                  IsDateValid(RSTNFile_init(req.year, req.month, req.day,
                                            req.station)))
    /\ UNCHANGED <<impl, req, server, fs, filename, dataframe, pc, loc>>
    /\ pre' = Snapshot
    /\ Log

DateYears ==
    { <<"2","0","2","1">>, <<"2","0","2","0">>, <<"1","9","0","0">>,
      <<"2","0","0","0">>, <<"0">>, <<"1","0","0","0","0">>,
      <<"2","1","4","7","4","8","3","6","4","8">>, <<"y","e","a","r">> }

DateMonths ==
    { <<"0","2">>, <<"0","4">>, <<"1","2">>, <<"1","3">>, <<"0","0">>,
      <<"m","m">> }

DateDays ==
    { <<"2","8">>, <<"2","9">>, <<"3","0">>, <<"3","1">>, <<"0","0">>,
      <<"3","2">>, <<>> }

DateInit ==
    /\ impl = "rstnfile"
    /\ req \in {[year |-> y, month |-> m, day |-> d, station |-> SagamoreHill] :
                   y \in DateYears, m \in DateMonths, d \in DateDays}
    /\ server = [u \in {} |-> <<>>]
    /\ fs = [cwd |-> NoFiles, path |-> NoFiles]
    /\ filename = None
    /\ dataframe = NoFrame
    /\ pc = "idle"
    /\ loc = NoLoc
    /\ gets = <<>>
    /\ ret = Pending("none")
    /\ ncalls = 0
    /\ pre = Snapshot
    /\ pipeline = "off"

DateSpec == DateInit /\ [][CallIsDateValid]_vars

(***************************************************************************)
(* Two download_file calls in one process                                  *)
(*                                                                         *)
(* PairSpec has two downloaders of one class, for requests with different  *)
(* dates, that share the working directory and the target directory.  Each *)
(* makes one download_file call; the steps of the two calls (GET, write,   *)
(* rename) interleave in any order.  req, pc, loc, gets and ret hold one   *)
(* entry per downloader.                                                   *)
(***************************************************************************)
PairInit ==
    /\ impl \in {"rstnpy", "downloader"}
    /\ req \in {<<Req2002, other>> :
                  other \in {[Req2002 EXCEPT !.day = 5],
                             [Req2002 EXCEPT !.month = 10],
                             [Req2002 EXCEPT !.year = 2003]}}
    /\ server \in {ArchiveServer(req[1], s[1], s[2], Gzip(TwoLines))
                    @@ ArchiveServer(req[2], s[3], s[4], Gzip(<<>>)) :
                       s \in [1..4 -> {200, 404}]}
    /\ fs = [cwd |-> NoFiles, path |-> NoFiles]
    /\ filename = None
    /\ dataframe = NoFrame
    /\ pc = <<"start", "start">>
    /\ loc = <<NoLoc, NoLoc>>
    /\ gets = << <<>>, <<>> >>
    /\ ret = <<Pending("none"), Pending("none")>>
    /\ ncalls = 0
    /\ pre = Snapshot
    /\ pipeline = "off"

\* Downloader k enters download_file().
PairCall(k) ==
    /\ pc[k] = "start"
    /\ pc' = [pc EXCEPT ![k] = "dl_upper"]
    /\ ret' = [ret EXCEPT ![k] = Pending("download_file")]
    /\ ncalls' = ncalls + 1
    /\ UNCHANGED <<impl, req, server, fs, filename, dataframe, loc, gets,
                   pre, pipeline>>

\* __download(upper) of downloader k up to the status check, and what the
\* except clauses of download_file make of a failure.
PairGet(k) ==
    /\ pc[k] \in {"dl_upper", "dl_lower"}
    /\ LET upper == pc[k] = "dl_upper"
           url == SetUrl(impl, req[k], upper)
       IN  IF url.exc # "none"
           THEN /\ ret' = [ret EXCEPT ![k] = Raised("download_file", url.exc)]
                /\ pc' = [pc EXCEPT ![k] = "done"]
                /\ UNCHANGED <<gets, loc>>
           ELSE /\ gets' = [gets EXCEPT ![k] = Append(@, url.val)]
                /\ IF StatusOk(impl, Get(url.val).status)
                   THEN /\ loc' = [loc EXCEPT ![k] =
                                     [NoLoc EXCEPT
                                         !.name = FullName(Namer(impl, req[k]),
                                                           upper, TRUE).val,
                                         !.data = Get(url.val).body]]
                        /\ pc' = [pc EXCEPT ![k] = "dl_write"]
                        /\ UNCHANGED ret
                   ELSE IF upper
                   THEN /\ pc' = [pc EXCEPT ![k] = "dl_lower"]
                        /\ UNCHANGED <<loc, ret>>
                   ELSE /\ ret' = [ret EXCEPT ![k] =
                                     Raised("download_file", NotOnServer(impl))]
                        /\ pc' = [pc EXCEPT ![k] = "done"]
                        /\ UNCHANGED loc
    /\ UNCHANGED <<impl, req, server, fs, filename, dataframe, ncalls, pre,
                   pipeline>>

\* with open(filename, 'wb') as fp: fp.write(r.content) of downloader k
PairWrite(k) ==
    /\ pc[k] = "dl_write"
    /\ fs' = WriteFile(fs, "cwd", loc[k].name, loc[k].data)
    /\ pc' = [pc EXCEPT ![k] = "dl_rename"]
    /\ UNCHANGED <<impl, req, server, filename, dataframe, loc, gets, ret,
                   ncalls, pre, pipeline>>

\* Path(filename).rename(path/filename) of downloader k and the return; the
\* rename raises FileNotFoundError when the working directory has no file
\* of that name any more.
PairRename(k) ==
    /\ pc[k] = "dl_rename"
    /\ IF Exists(fs, "cwd", loc[k].name)
       THEN /\ fs' = RenameIntoPath(fs, loc[k].name)
            /\ ret' = [ret EXCEPT ![k] =
                          Returned("download_file", loc[k].name)]
       ELSE /\ ret' = [ret EXCEPT ![k] =
                          Raised("download_file", "FileNotFoundError")]
            /\ UNCHANGED fs
    /\ pc' = [pc EXCEPT ![k] = "done"]
    /\ UNCHANGED <<impl, req, server, filename, dataframe, loc, gets, ncalls,
                   pre, pipeline>>

PairNext ==
    \E k \in 1..2 :
        \/ PairCall(k)
        \/ PairGet(k)
        \/ PairWrite(k)
        \/ PairRename(k)

PairSpec == PairInit /\ [][PairNext]_vars



(***************************************************************************)
(* Properties                                                              *)
(***************************************************************************)
\* The last call entered is op, running or finished.
InCall(op) == ret.op = op

\* The last call entered is op and it has returned or raised.
Finished(op) == ret.op = op /\ ret.exc # "pending" /\ pc = "idle"

\* The object is one of the two RSTNDownloader classes.
IsDownloader == impl \in {"rstnpy", "downloader"}

UpperUrl == ArchiveUrl(req, TRUE)

LowerUrl == ArchiveUrl(req, FALSE)

\* The table of the two lines of TwoLines.
ExpectedTable ==
    [index |-> << <<2002, 9, 4, 0, 0, 0>>, <<2002, 9, 4, 0, 0, 1>> >>,
     utc |-> TRUE,
     columns |-> <<"245", "410", "610", "1415", "2695", "4995", "8800",
                   "15400">>,
     values |-> [c \in {"245", "410", "610", "1415", "2695", "4995", "8800",
                        "15400"} |->
                    LET k == CHOOSE j \in 1..8 :
                                 <<"245", "410", "610", "1415", "2695",
                                   "4995", "8800", "15400">>[j] = c
                    IN  << [nan |-> FALSE, v |-> Values1[k]],
                           [nan |-> FALSE, v |-> Values2[k]] >>]]

\* C1: for an rstnpy RSTN object for 4 September 2002 at Sagamore Hill and
\* an archive serving a gzip file of two well-formed lines of interval 6,
\* download_file, decompress_file, create_dataframe in this order all
\* complete without raising, and the table then has the two rows, the
\* columns 245..15400 in order and the integers of the lines.
C1_EndToEnd ==
    ( /\ impl = "rstnpy"
      /\ req = Req2002
      /\ Get(UpperUrl) = [status |-> 200, body |-> Gzip(TwoLines)] )
    => /\ pipeline # "failed"
       /\ pipeline = "3" => dataframe = <<ExpectedTable>>

\* C2: download_file for a request that is no calendar date fails with
\* InvalidDateError, and no GET is issued and no file written before it.
C2_InvalidDateRejected ==
    ( /\ IsDownloader
      /\ ~IsCalendarDate(req.year, req.month, req.day)
      /\ InCall("download_file") )
    => /\ gets = <<>>
       /\ fs = pre.fs
       /\ ret.exc \in {"pending", "InvalidDateError"}

\* C3: when file_exists holds as download_file is entered, the call issues
\* no GET and returns the existing filename; a download_file call that
\* follows a successful one issues no GET and returns the same filename.
C3_IdempotentDownload ==
    /\ ( /\ IsDownloader
         /\ InCall("download_file")
         /\ FileExistsHits(impl, req, pre.fs) # {} )
       => /\ gets = <<>>
          /\ ret.exc \in {"pending", "none"}
          /\ ret.exc = "none" => ret.val \in FileExistsHits(impl, req, pre.fs)
    /\ ( /\ IsDownloader
         /\ InCall("download_file")
         /\ pre.ret.op = "download_file"
         /\ pre.ret.exc = "none" )
       => /\ gets = <<>>
          /\ ret.exc \in {"pending", "none"}
          /\ ret.exc = "none" => ret.val = pre.ret.val

\* C4: within a download_file call the first GET is for the upper-case URL,
\* a second GET is for the lower-case URL and comes only after the upper-case
\* attempt failed, and against an archive that accepts only the lower-case
\* variant the call succeeds.
C4_CaseFallbackOrder ==
    ( IsDownloader /\ InCall("download_file") )
    => /\ Len(gets) <= 2
       /\ Len(gets) >= 1 => gets[1] = UpperUrl
       /\ Len(gets) = 2 => gets[2] = LowerUrl /\ Get(UpperUrl).status # 200
       /\ ( /\ Get(UpperUrl).status = 404
            /\ Get(LowerUrl).status = 200
            /\ Finished("download_file") )
          => ret.exc = "none"

\* C5: when the archive rejects both variants, download_file raises
\* FileNotFoundOnServerError and the working directory and the target
\* directory hold what they held before the call.
C5_BothVariantsFail ==
    ( /\ IsDownloader
      /\ Get(UpperUrl).status = 404
      /\ Get(LowerUrl).status = 404
      /\ Finished("download_file") )
    => /\ ret.exc = "FileNotFoundOnServerError"
       /\ fs = pre.fs

AttemptSucceeded(k) ==
    /\ k = Len(gets)
    /\ \/ pc \in {"dl_write", "dl_rename"}
       \/ pc = "idle" /\ ret.exc = "none"

\* What C7 says of the attempts made so far, for a given reading of which
\* statuses count as success: an attempt is taken as failed exactly when
\* its status is none of them, a failed upper-case attempt leads to the
\* lower-case one, and as long as no attempt succeeded no file is written.
AttemptsFollow(good) ==
    ( IsDownloader /\ InCall("download_file") )
    => /\ \A k \in 1..Len(gets) :
              AttemptSucceeded(k) <=> Get(gets[k]).status \in good
       /\ (Len(gets) = 1 /\ ~AttemptSucceeded(1)) => pc = "dl_lower"
       /\ (\A k \in 1..Len(gets) : ~AttemptSucceeded(k)) => fs = pre.fs

\* C7 as stated: a variant attempt of __download is taken as failed if and
\* only if the response status is not a 2xx code.
C7_Non2xxFails == AttemptsFollow(200..299)

\* C7 as amended: a variant attempt of __download is taken as failed if and
\* only if the response status is not 200; a failed upper-case attempt
\* triggers the lower-case one and no failed attempt writes a file.
C7_Not200Fails == AttemptsFollow({200})

\* C7 witness: the upper-case attempt got a 204 and the downloader has
\* fallen back to the lower-case variant.
C7_Witness ==
    /\ IsDownloader
    /\ pc = "dl_lower"
    /\ Len(gets) = 1
    /\ Get(gets[1]).status = 204

\* The compressed names of the request's file, upper- and lower-case.
GzNames == {FullName(Namer(impl, req), u, TRUE).val : u \in BOOLEAN}

\* C8: when the target directory holds gzip(C) under N.gz, the file of the
\* object's request, decompress_file returns N, N holds C afterwards and
\* N.gz is gone.  GetRSTN is taken with the name its download_file stored;
\* RSTN has no operation that stores one before decompress_file.
C8_RoundTrip ==
    \A n \in GzNames : \A c \in Payloads :
        ( /\ impl \in {"rstnpy", "getrstn"}
          /\ Finished("decompress_file")
          /\ n \in DOMAIN pre.fs["path"]
          /\ pre.fs["path"][n] = Gzip(c)
          /\ pre.filename = IF impl = "rstnpy" THEN None ELSE n )
        => /\ ret.exc = "none"
           /\ ret.val \o GzSuffix = n
           /\ ret.val \in DOMAIN fs["path"]
           /\ fs["path"][ret.val] = c
           /\ n \notin DOMAIN fs["path"]

\* The file decompress_file works on: str(self.__filename) for RSTN,
\* self._filename for GetRSTN.
CurrentFile == IF impl = "rstnpy" THEN StrOf(pre.filename) ELSE pre.filename

\* C9: decompress_file on a file whose content is not gzip-framed returns
\* the filename unchanged without raising and leaves every file as it was.
C9_NonGzipPassthrough ==
    ( /\ impl \in {"rstnpy", "getrstn"}
      /\ Finished("decompress_file")
      /\ CurrentFile \in DOMAIN pre.fs["path"]
      /\ Len(pre.fs["path"][CurrentFile]) >= 2
      /\ SubSeq(pre.fs["path"][CurrentFile], 1, 2) # GzipMagic )
    => /\ ret.exc = "none"
       /\ ret.val = CurrentFile
       /\ fs = pre.fs

\* C10: while decompress_file runs, the compressed original with its
\* content or the completely written decompressed file exists, and after a
\* return the file named by the returned name exists.
C10_OneFileAlwaysThere ==
    /\ pc \in {"dc_open", "dc_write", "dc_remove"}
       => \/ /\ loc.name \in DOMAIN fs["path"]
             /\ fs["path"][loc.name] = pre.fs["path"][loc.name]
          \/ /\ loc.final \in DOMAIN fs["path"]
             /\ fs["path"][loc.final] = loc.data
    /\ (Finished("decompress_file") /\ ret.exc = "none")
       => ret.val \in DOMAIN fs["path"]

\* C11: decompress_file and read_file of an RSTN object, entered while its
\* filename is None, raise FilenameNotSetError, and from entry to the end
\* of the call every file is as it was.
C11_FilenameNotSet ==
    ( /\ impl = "rstnpy"
      /\ ret.op \in {"decompress_file", "read_file"}
      /\ pre.filename = None )
    => /\ fs = pre.fs
       /\ ret.exc \in {"pending", "FilenameNotSetError"}

\* The file read_file opens holds the lines d, written with the width of
\* the request's year.
Described(d) ==
    /\ filename # None
    /\ filename \in DOMAIN fs["path"]
    /\ fs["path"][filename] = FileText(d, ArchiveInterval(req.year))

\* No shaped line of d goes on after its eighth field.
EndsAtEighth(d) == \A j \in 1..Len(d) : d[j].shaped => d[j].raw = <<>>

\* Every line of d is well-formed: eight integer fields and the newline.
AllGood(d) ==
    EndsAtEighth(d) /\ \A j \in 1..Len(d) : d[j].shaped /\ d[j].bad = 0

\* The lines of d that have the shape of a record, in their order.
ShapedOf(d) == SelectSeq(d, LAMBDA l : l.shaped)

\* data is index-aligned with rows: a timestamp sequence and one sequence
\* under each of the eight keys, entry j of each taken from row j.
RowsMatch(data, rows, keys) ==
    /\ DOMAIN data = {"time"} \cup {keys[k] : k \in 1..8}
    /\ Len(data["time"]) = Len(rows)
    /\ \A j \in 1..Len(rows) : data["time"][j] = rows[j].time
    /\ \A k \in 1..8 :
          /\ Len(data[keys[k]]) = Len(rows)
          /\ \A j \in 1..Len(rows) : data[keys[k]][j] = rows[j].cells[k]

\* read_file has returned the records of the shaped lines of d.
ParsedAs(d) ==
    /\ ret.exc = "none"
    /\ RowsMatch(ret.val[1], ShapedOf(d), FrequenciesColumns(impl))

C13_AlignedColumns ==
    \A d \in ParseFiles :
        ( /\ Finished("read_file")
          /\ AllGood(d)
          /\ Described(d) )
        => ParsedAs(d)

\* C14: for a file of lines with well-formed headers in which some line
\* has one field that is no integer, read_file returns a record per line
\* in which that field is NaN and the timestamp and the other fields have
\* their values.
C14_MissingSentinel ==
    \A d \in ParseFiles :
        ( /\ Finished("read_file")
          /\ \A j \in 1..Len(d) : d[j].shaped
          /\ \E j \in 1..Len(d) : d[j].bad # 0
          /\ EndsAtEighth(d)
          /\ Described(d) )
        => ParsedAs(d)

\* C15: for a file in which some line has not the expected shape,
\* read_file raises nothing and returns the records of the other lines.
C15_MalformedSkipped ==
    \A d \in ParseFiles :
        ( /\ Finished("read_file")
          /\ \E j \in 1..Len(d) : ~d[j].shaped
          /\ EndsAtEighth(d)
          /\ Described(d) )
        => ParsedAs(d)

\* C16: for a file of well-formed lines create_dataframe of RSTN builds a
\* table with one row per line, the columns 245, ..., 15400 in this order,
\* each holding the values of its frequency.
C16_TableColumns ==
    \A d \in ParseFiles :
        ( /\ impl = "rstnpy"
          /\ Finished("create_dataframe")
          /\ AllGood(d)
          /\ Len(d) >= 1
          /\ Described(d) )
        => /\ ret.exc = "none"
           /\ dataframe # NoFrame
           /\ dataframe[1].columns =
                 <<"245", "410", "610", "1415", "2695", "4995", "8800",
                   "15400">>
           /\ Len(dataframe[1].index) = Len(d)
           /\ \A k \in 1..8 : \A j \in 1..Len(d) :
                 dataframe[1].values[dataframe[1].columns[k]][j] =
                     d[j].cells[k]

\* C17: create_dataframe entered while no filename was resolved raises
\* FileNotFoundError, in RSTN and in GetRSTN, and the dataframe attribute
\* stays None.
C17_SourceNotAvailable ==
    ( /\ impl \in {"rstnpy", "getrstn"}
      /\ Finished("create_dataframe")
      /\ pre.filename = None )
    => /\ ret.exc = "FileNotFoundError"
       /\ dataframe = NoFrame

\* The filename of a request as C19 words it: the two-digit day, the
\* month's abbreviation in the variant's case, the year's last two digits.
ClaimedFilename(r, upper) ==
    FormatDay(r.day)
    \o (IF upper THEN MonthsUpper ELSE MonthsLower)[r.month]
    \o SubSeq(StrNat(r.year), Len(StrNat(r.year)) - 1, Len(StrNat(r.year)))

\* The URL of a request as C18 words it.
ClaimedUrl(r, upper) ==
    BaseUrl \o Replace(Lower(r.station), " ", "-") \o <<"/">>
            \o StrNat(r.year) \o <<"/">> \o FormatMonth(r.month) \o <<"/">>
            \o ClaimedFilename(r, upper)
            \o <<".">> \o ExtensionOf(Lower(r.station), upper).val
            \o GzSuffix

\* C18: once download_file of an RSTN object's downloader has built the
\* URL of a variant, no error was raised by it, and the URLs requested are
\* base path + slug + "/" + year + "/" + two-digit month + "/" + filename +
\* extension, the upper-case variant's first.
C18_UrlOfVariant ==
    ( /\ impl = "rstnpy"
      /\ InCall("download_file")
      /\ pc # "dl_upper" )
    => /\ ret.exc # "TypeError"
       /\ gets # <<>>
       /\ \A k \in 1..Len(gets) : gets[k] = ClaimedUrl(req, k = 1)

\* C19: the filename the downloader of an RSTN object resolves, in
\* file_exists or download_file, is the claimed one for either variant.
C19_ResolvedFilename ==
    ( /\ impl = "rstnpy"
      /\ ret.op \in {"file_exists", "download_file"} )
    => \A upper \in BOOLEAN :
           SetFilename(Namer(impl, req), upper) =
               Ok(ClaimedFilename(req, upper))

\* A string is a run of at most nine digits whose value lies in lo..hi.
DigitsIn(s, lo, hi) ==
    /\ s # <<>>
    /\ \A k \in 1..Len(s) : IsDigit(s[k])
    /\ Len(s) <= 9
    /\ DigitsVal(s) >= lo
    /\ DigitsVal(s) <= hi

\* The strings of a request name a day of the calendar.
RealDate(r) ==
    /\ DigitsIn(r.year, 1, 9999)
    /\ DigitsIn(r.month, 1, 12)
    /\ DigitsIn(r.day, 1, DaysInMonth(DigitsVal(r.year), DigitsVal(r.month)))

\* C20: is_date_valid returns, and never raises: True when the object's
\* year, month and day form a date of the calendar, False when not.
C20_DateValid ==
    Finished("is_date_valid")
    => /\ ret.exc = "none"
       /\ ret.val = (IF RealDate(req) THEN PyTrue ELSE PyFalse)

\* C22: a download_file call of an RSTNDownloader issues at most two GET
\* requests, each for the upper-case or the lower-case URL of the request,
\* no URL twice, the second only after the first was refused; once the
\* second is refused too the call ends with no further GET.
C22_NoRetry ==
    ( IsDownloader /\ InCall("download_file") )
    => /\ Len(gets) <= 2
       /\ \A k \in 1..Len(gets) : gets[k] \in {UpperUrl, LowerUrl}
       /\ \A j \in 1..Len(gets) : \A k \in 1..Len(gets) :
              j # k => gets[j] # gets[k]
       /\ \A k \in 1..Len(gets) - 1 : ~StatusOk(impl, Get(gets[k]).status)
       /\ ( Len(gets) = 2 /\ ~StatusOk(impl, Get(gets[2]).status) )
          => pc = "idle" /\ ret.exc = NotOnServer(impl)

\* A download_file call has tried both variants and both were refused.
C22_Witness ==
    /\ IsDownloader
    /\ Finished("download_file")
    /\ gets = <<UpperUrl, LowerUrl>>
    /\ ret.exc = NotOnServer(impl)

C25_InjectiveFilenames ==
    ( /\ IsDownloader
      /\ Finished("file_exists")
      /\ ret.exc = "none" )
    => \A other \in {[req EXCEPT !.day = d] : d \in {4, 5, 30}}
                   \cup {[req EXCEPT !.month = m] : m \in {2, 9, 10}}
                   \cup {[req EXCEPT !.year = y] : y \in {2002, 2003, 2021}} :
           other # req
           => \A upper \in BOOLEAN :
                  FullName(Namer(impl, req), upper, TRUE).val
                     # FullName(Namer(impl, other), upper, TRUE).val

\* C26: a file_exists() call made on a downloader right after one of its
\* download_file calls returned (no other call between) returns True.
C26_ExistsAfterDownload ==
    ( /\ IsDownloader
      /\ Finished("file_exists")
      /\ pre.ret.op = "download_file"
      /\ pre.ret.exc = "none" )
    => ret = Returned("file_exists", PyTrue)

\* C27: in an rstnpy RSTN object every step that changes the filename
\* attribute is the last step of a decompress_file call that returns, and
\* the new value is the name that call returns; the steps of download_file,
\* file_exists, read_file, create_dataframe, plot and of a decompress_file
\* call that raises leave it as it was.
C27_FilenameFrame ==
    [][ ( impl = "rstnpy" /\ filename' # filename )
        => /\ ret.op = "decompress_file"
           /\ pc = "dc_remove"
           /\ ret' = Returned("decompress_file", filename') ]_vars

\* An rstnpy decompress_file call has returned and changed the filename,
\* after a download_file call that raised had left it None.
C27_Witness ==
    /\ impl = "rstnpy"
    /\ Finished("decompress_file")
    /\ ret.exc = "none"
    /\ pre.ret.op = "download_file"
    /\ pre.filename = None
    /\ filename # None

\* C28: a decompress_file call entered right after a decompress_file call
\* that returned raises, and leaves both directories and the filename
\* attribute as the first call left them.
C28_SecondDecompress ==
    ( /\ impl \in {"rstnpy", "getrstn"}
      /\ Finished("decompress_file")
      /\ pre.ret.op = "decompress_file"
      /\ pre.ret.exc = "none" )
    => /\ ret.exc # "none"
       /\ fs = pre.fs
       /\ filename = pre.filename

\* The four station names of the claim, lower-cased.
C29_KnownStation(station) ==
    Lower(station) \in
        { <<"s","a","g","a","m","o","r","e"," ","h","i","l","l">>,
          <<"s","a","n"," ","v","i","t","o">>,
          <<"p","a","l","e","h","u","a">>,
          <<"l","e","a","r","m","o","n","t","h">> }

\* C29: a download_file call of an RSTNDownloader for a station whose
\* lower-cased name is none of the four raises, with no GET issued and both
\* directories as they were at the call; for a station that is one of the
\* four in any spelling the extension lookup of both case variants, with
\* and without .gz, raises nothing, and neither download_file nor
\* file_exists ends with a KeyError.
C29_StationLookup ==
    IsDownloader
    => /\ ( InCall("download_file") /\ ~C29_KnownStation(req.station) )
          => /\ gets = <<>>
             /\ fs = pre.fs
             /\ pc \in {"dl_upper", "idle"}
             /\ pc = "idle" => ret.exc \notin {"none", "pending"}
       /\ ( /\ ret.op \in {"download_file", "file_exists"}
            /\ pc = "idle"
            /\ C29_KnownStation(req.station) )
          => /\ ret.exc # "KeyError"
             /\ \A upper \in BOOLEAN : \A file_gzip \in BOOLEAN :
                    SetFileExtension(Namer(impl, req), upper,
                                     file_gzip).exc = "none"

\* A download_file call for a station that is none of the four has raised
\* the KeyError of the lookup.
C29_Witness ==
    /\ IsDownloader
    /\ Finished("download_file")
    /\ ~C29_KnownStation(req.station)
    /\ ret.exc = "KeyError"
    /\ gets = <<>>

\* C24: GetRSTN.read_file, whose slices are those of RSTN.read_file, reads
\* from every line of a file of shaped lines the eight fields written at
\* the offsets 18 + k * interval, k = 0..7, each of width interval: the
\* record of a line is the same whether or not characters follow its
\* eighth field.
C24_FieldSlices ==
    \A d \in ParseFiles :
        ( /\ impl = "getrstn"
          /\ Finished("read_file")
          /\ \A j \in 1..Len(d) : d[j].shaped
          /\ Described(d) )
        => ParsedAs(d)

\* C21: of two downloaders for requests with different dates whose
\* download_file calls interleave, each finds the file it wrote in the
\* working directory unaltered when it renames it; each call for which the
\* archive accepts a variant returns, and the target directory then holds,
\* and keeps holding, the body the archive sent for that request under the
\* returned name; the two returned names differ.
C21_NoInterference ==
    \A k \in 1..2 :
        /\ pc[k] = "dl_rename"
           => /\ Exists(fs, "cwd", loc[k].name)
              /\ fs["cwd"][loc[k].name] = loc[k].data
        /\ ( /\ pc[k] = "done"
             /\ \E upper \in BOOLEAN :
                    StatusOk(impl, Get(ArchiveUrl(req[k], upper)).status) )
           => /\ ret[k].exc = "none"
              /\ Exists(fs, "path", ret[k].val)
              /\ fs["path"][ret[k].val] = Get(gets[k][Len(gets[k])]).body
              /\ \A j \in 1..2 :
                     ( j # k /\ pc[j] = "done" /\ ret[j].exc = "none" )
                     => ret[j].val # ret[k].val

====
